---- MODULE Spec2Model ----
(***************************************************************************)
(* A model of the `store` crate: Stored<T> (src/src/stored.rs), one value  *)
(* backed by one JSON file, and Store<T> (src/src/store.rs), a directory   *)
(* of Stored values kept in a HashMap keyed by path.                       *)
(*                                                                         *)
(* The file system is part of the state: whether the store's directory     *)
(* exists and the content of every file directly inside it.  A path is     *)
(* modelled by its last component, split into stem and extension; every    *)
(* path of the model lies directly inside the store's directory.           *)
(***************************************************************************)
EXTENDS Naturals, Sequences, FiniteSets, TLC

\* Bounds of the model: how many names and how many values the operations draw from.
NumNames == 3
NumValues == 2

\* The names handed to the Store: with the "json" extension, as in the tests, or without.
AllNames ==
    << [stem |-> "a", ext |-> "json"], [stem |-> "b", ext |-> "json"],
       [stem |-> "a", ext |-> ""],     [stem |-> "b", ext |-> ""],
       [stem |-> "c", ext |-> "json"], [stem |-> "c", ext |-> ""] >>
AllValues == <<"world", "v1", "v2", "v3">>

Names == {AllNames[i] : i \in 1..NumNames}
Values == {AllValues[i] : i \in 1..NumValues}

\* Files of other origin that may lie in the directory before the store is opened.
ForeignFiles == {[stem |-> "notes", ext |-> "txt"], [stem |-> "README", ext |-> ""]}
ForeignContent == <<"#">>

NoName == [stem |-> "", ext |-> ""]
NoValue == "none"
NoStored == [path |-> NoName, value |-> NoValue]
EmptyMap == [k \in {} |-> NoStored]
EmptyFiles == [k \in {} |-> <<>>]
NoTests == <<>>

VARIABLES
    data,       \* Store.data: HashMap<PathBuf, Stored<T>>
    fs,         \* the disk: [dir |-> the directory exists, files |-> path -> content]
    ret,        \* the last operation, its arguments and what it returned
    deleted,    \* the names Store::delete has removed from this Store so far
    tests       \* the test functions that run as threads, each with a Store of its own

vars == <<data, fs, ret, deleted, tests>>

----------------------------------------------------------------------------
(* Paths *)

\* Path::with_extension("json"): the extension is set, or replaced.
WithExtension(p) == [p EXCEPT !.ext = "json"]

\* Path::extension(): "" stands for None.
Extension(p) == p.ext

\* self.path.join(name): the key of the map; the directory is the same for all.
Join(name) == name

----------------------------------------------------------------------------
(* serde_json on a String value *)

Serialize(v) == <<"\"", v, "\"">>

Deserialize(bytes) ==
    IF Len(bytes) = 3 /\ bytes[1] = "\"" /\ bytes[3] = "\""
    THEN [ok |-> TRUE, v |-> bytes[2]]
    ELSE [ok |-> FALSE, v |-> NoValue]

----------------------------------------------------------------------------
(* std::fs *)

\* File::create: fails when the directory is missing, else creates or truncates.
FileCreate(f, path) ==
    IF f.dir
    THEN [ok |-> TRUE, fs |-> [f EXCEPT !.files = (path :> <<>>) @@ f.files]]
    ELSE [ok |-> FALSE, fs |-> f]

\* fs::remove_file: fails when the file is missing.
RemoveFile(f, path) ==
    IF f.dir /\ path \in DOMAIN f.files
    THEN [ok |-> TRUE,
          fs |-> [f EXCEPT !.files = [p \in DOMAIN f.files \ {path} |-> f.files[p]]]]
    ELSE [ok |-> FALSE, fs |-> f]

\* fs::create_dir_all: an existing directory keeps its files.
CreateDirAll(f) == [f EXCEPT !.dir = TRUE]

\* fs::remove_dir_all: the directory and all it holds.
RemoveDirAll(f) == [dir |-> FALSE, files |-> EmptyFiles]

\* The orders fs::read_dir may list the directory in: every order of its files.
RECURSIVE Orders(_)
Orders(S) ==
    IF S = {} THEN {<<>>}
    ELSE UNION {{<<p>> \o o : o \in Orders(S \ {p})} : p \in S}

ReadDirOrders(f) == Orders(DOMAIN f.files)

\* One of these orders.
RECURSIVE Listing(_)
Listing(S) ==
    IF S = {} THEN <<>>
    ELSE LET p == CHOOSE q \in S : TRUE IN <<p>> \o Listing(S \ {p})

ReadDir(f) == Listing(DOMAIN f.files)

----------------------------------------------------------------------------
(* Stored<T> *)

\* Stored::new as it would be if it read the file before truncating it.
StoredNewReadsFirst(f, path, default) ==
    LET p == WithExtension(path)
        c == FileCreate(f, p)
    IN  IF ~c.ok
        THEN [ok |-> FALSE, fs |-> f, stored |-> NoStored]
        ELSE LET d == IF p \in DOMAIN f.files THEN Deserialize(f.files[p])
                      ELSE [ok |-> FALSE, v |-> NoValue]
             IN  [ok |-> TRUE, fs |-> c.fs,
                  stored |-> [path |-> p, value |-> IF d.ok THEN d.v ELSE default]]

\* Stored::new: the file is created (truncated) and then read through the same
\* handle; whatever decoding fails on yields the default.
StoredNew(f, path, default) ==
    LET p == WithExtension(path)
        c == FileCreate(f, p)
    IN  IF ~c.ok
        THEN [ok |-> FALSE, fs |-> f, stored |-> NoStored]
        ELSE LET d == Deserialize(c.fs.files[p])
             IN  [ok |-> TRUE, fs |-> c.fs,
                  stored |-> [path |-> p, value |-> IF d.ok THEN d.v ELSE default]]

\* Stored::save
StoredSave(f, st) ==
    LET c == FileCreate(f, st.path)
    IN  IF ~c.ok
        THEN [ok |-> FALSE, fs |-> f]
        ELSE [ok |-> TRUE, fs |-> [c.fs EXCEPT !.files[st.path] = Serialize(st.value)]]

\* Stored::store
StoredStore(f, st, value) ==
    LET st2 == [st EXCEPT !.value = value]
        s == StoredSave(f, st2)
    IN  [ok |-> s.ok, fs |-> s.fs, stored |-> st2]

\* Stored::delete as it would be if a missing file were no error.
StoredDeleteIgnoresMissing(f, st) == [ok |-> TRUE, fs |-> RemoveFile(f, st.path).fs]

\* Stored::delete
StoredDelete(f, st) == RemoveFile(f, st.path)

\* Stored::value
StoredValue(st) == st.value

----------------------------------------------------------------------------
(* Store<T>: each operation as a function of the map and the disk.  out is "Ok", *)
(* "Err" (an Err returned to the caller) or "Panic" (an unwrap that failed).     *)

\* Store::new
StoreNew(f) == [out |-> "Ok", data |-> EmptyMap, fs |-> CreateDirAll(f)]

\* Store::all as it would be if it skipped a file that has no entry in the map.
StoreAllSkips(d, f, order) ==
    IF ~f.dir
    THEN [out |-> "Panic", val |-> <<>>]
    ELSE IF \E i \in 1..Len(order) : Extension(order[i]) = ""
    THEN [out |-> "Panic", val |-> <<>>]
    ELSE LET Known(p) == Extension(p) = "json" /\ p \in DOMAIN d
             js == SelectSeq(order, Known)
         IN  [out |-> "Ok", val |-> [i \in 1..Len(js) |-> StoredValue(d[js[i]])]]

\* Store::all, with the directory listed in the given order.
StoreAll(d, f, order) ==
    IF ~f.dir
    THEN [out |-> "Panic", val |-> <<>>]
    ELSE IF \E i \in 1..Len(order) : Extension(order[i]) = ""
    THEN [out |-> "Panic", val |-> <<>>]
    ELSE LET IsJson(p) == Extension(p) = "json"
             js == SelectSeq(order, IsJson)
         IN  IF \E i \in 1..Len(js) : js[i] \notin DOMAIN d
             THEN [out |-> "Panic", val |-> <<>>]
             ELSE [out |-> "Ok", val |-> [i \in 1..Len(js) |-> StoredValue(d[js[i]])]]

\* Store::save as it would be if it stored the supplied value in an existing entry.
StoreSaveApplies(d, f, name, value) ==
    LET key == Join(name)
    IN  IF key \in DOMAIN d
        THEN LET st == [d[key] EXCEPT !.value = value]
                 s == StoredSave(f, st)
             IN  [out |-> IF s.ok THEN "Ok" ELSE "Err", data |-> [d EXCEPT ![key] = st],
                  fs |-> s.fs]
        ELSE LET n == StoredNew(f, key, value)
             IN  IF ~n.ok
                 THEN [out |-> "Panic", data |-> d, fs |-> f]
                 ELSE LET s == StoredSave(n.fs, n.stored)
                      IN  [out |-> IF s.ok THEN "Ok" ELSE "Err",
                           data |-> (key :> n.stored) @@ d, fs |-> s.fs]

\* Store::save
StoreSave(d, f, name, value) ==
    LET key == Join(name)
    IN  IF key \in DOMAIN d
        THEN LET s == StoredSave(f, d[key])
             IN  [out |-> IF s.ok THEN "Ok" ELSE "Err", data |-> d, fs |-> s.fs]
        ELSE LET n == StoredNew(f, key, value)
             IN  IF ~n.ok
                 THEN [out |-> "Panic", data |-> d, fs |-> f]
                 ELSE LET s == StoredSave(n.fs, n.stored)
                      IN  [out |-> IF s.ok THEN "Ok" ELSE "Err",
                           data |-> (key :> n.stored) @@ d, fs |-> s.fs]

\* Store::get as it would be if it loaded a missing entry from its file.
StoreGetFromDisk(d, name) ==
    LET key == Join(name)
        p == WithExtension(key)
    IN  IF key \in DOMAIN d THEN <<StoredValue(d[key])>>
        ELSE IF p \in DOMAIN fs.files /\ Deserialize(fs.files[p]).ok
        THEN <<Deserialize(fs.files[p]).v>>
        ELSE <<>>

\* Store::get: <<>> stands for None, <<v>> for Some(v).
StoreGet(d, name) ==
    LET key == Join(name)
    IN  IF key \in DOMAIN d THEN <<StoredValue(d[key])>> ELSE <<>>

\* Store::delete as it would be if it left the entry in the map.
StoreDeleteKeeps(d, f, name) ==
    LET key == Join(name)
    IN  IF key \in DOMAIN d
        THEN [out |-> IF StoredDelete(f, d[key]).ok THEN "Ok" ELSE "Err", data |-> d,
              fs |-> StoredDelete(f, d[key]).fs]
        ELSE [out |-> "Panic", data |-> d, fs |-> f]

\* Store::delete as it would be if it took the entry out of the map only once its
\* file is removed.
StoreDeleteRemovesLate(d, f, name) ==
    LET key == Join(name)
    IN  IF key \notin DOMAIN d
        THEN [out |-> "Panic", data |-> d, fs |-> f]
        ELSE LET d2 == [k \in DOMAIN d \ {key} |-> d[k]]
                 r == StoredDelete(f, d[key])
             IN  IF ~r.ok
                 THEN [out |-> "Err", data |-> d, fs |-> f]
                 ELSE LET a == StoreAll(d2, r.fs, ReadDir(r.fs))
                      IN  IF a.out = "Panic"
                          THEN [out |-> "Panic", data |-> d2, fs |-> r.fs]
                          ELSE IF a.val = <<>>
                          THEN [out |-> "Ok", data |-> d2, fs |-> RemoveDirAll(r.fs)]
                          ELSE [out |-> "Ok", data |-> d2, fs |-> r.fs]

\* Store::delete
StoreDelete(d, f, name) ==
    LET key == Join(name)
    IN  IF key \notin DOMAIN d
        THEN [out |-> "Panic", data |-> d, fs |-> f]
        ELSE LET d2 == [k \in DOMAIN d \ {key} |-> d[k]]
                 r == StoredDelete(f, d[key])
             IN  IF ~r.ok
                 THEN [out |-> "Err", data |-> d2, fs |-> f]
                 ELSE LET a == StoreAll(d2, r.fs, ReadDir(r.fs))
                      IN  IF a.out = "Panic"
                          THEN [out |-> "Panic", data |-> d2, fs |-> r.fs]
                          ELSE IF a.val = <<>>
                          THEN [out |-> "Ok", data |-> d2, fs |-> RemoveDirAll(r.fs)]
                          ELSE [out |-> "Ok", data |-> d2, fs |-> r.fs]

----------------------------------------------------------------------------
(* The state machine: one Store on one directory. *)

Ret(op, name, value, had, out, val) ==
    [op |-> op, name |-> name, value |-> value, had |-> had, out |-> out, val |-> val]

\* The process that panicked makes no further call.
Running == ret.out # "Panic"

Init ==
    /\ \E F \in SUBSET ForeignFiles :
          fs = StoreNew([dir |-> TRUE, files |-> [p \in F |-> ForeignContent]]).fs
    /\ data = EmptyMap
    /\ ret = Ret("new", NoName, NoValue, FALSE, "Ok", <<>>)
    /\ deleted = {}
    /\ tests = NoTests

\* Store::new on the same directory: by this process, or by a later one.
New ==
    LET r == StoreNew(fs)
    IN  /\ data' = r.data
        /\ fs' = r.fs
        /\ ret' = Ret("new", NoName, NoValue, FALSE, r.out, <<>>)
        /\ deleted' = {}
        /\ UNCHANGED tests

Save(name, value) ==
    LET r == StoreSave(data, fs, name, value)
    IN  /\ Running
        /\ data' = r.data
        /\ fs' = r.fs
        /\ ret' = Ret("save", name, value, Join(name) \in DOMAIN data, r.out, <<>>)
        /\ UNCHANGED <<deleted, tests>>

Get(name) ==
    /\ Running
    /\ ret' = Ret("get", name, NoValue, Join(name) \in DOMAIN data, "Ok", StoreGet(data, name))
    /\ UNCHANGED <<data, fs, deleted, tests>>

All ==
    /\ Running
    /\ \E order \in ReadDirOrders(fs) :
          LET r == StoreAll(data, fs, order)
          IN  ret' = Ret("all", NoName, NoValue, FALSE, r.out, r.val)
    /\ UNCHANGED <<data, fs, deleted, tests>>

Delete(name) ==
    LET r == StoreDelete(data, fs, name)
    IN  /\ Running
        /\ data' = r.data
        /\ fs' = r.fs
        /\ ret' = Ret("delete", name, NoValue, Join(name) \in DOMAIN data, r.out, <<>>)
        /\ deleted' = IF Join(name) \in DOMAIN data THEN deleted \cup {name} ELSE deleted
        /\ UNCHANGED tests

Next ==
    \/ New
    \/ \E name \in Names, value \in Values : Save(name, value)
    \/ \E name \in Names : Get(name)
    \/ All
    \/ \E name \in Names : Delete(name)

Spec == Init /\ [][Next]_vars

----------------------------------------------------------------------------
(* The state machine of Stored<T> used on its own: the units the caller holds are   *)
(* kept in data under the path each was made with; the directory is not theirs to   *)
(* make or to remove, and the files may hold anything before a unit is made.        *)

\* What a file may hold before a unit is made on it.
PriorContents == {ForeignContent} \cup {Serialize(v) : v \in Values}
UnitFiles == {WithExtension(n) : n \in Names}

InitStored ==
    /\ \E dir \in BOOLEAN, F \in SUBSET UnitFiles :
          \E c \in [F -> PriorContents] :
             fs = [dir |-> dir, files |-> IF dir THEN c ELSE EmptyFiles]
    /\ data = EmptyMap
    /\ ret = Ret("none", NoName, NoValue, FALSE, "Ok", <<>>)
    /\ deleted = {}
    /\ tests = NoTests

\* Stored::new(path, default); ret.val keeps what the file held before the call.
UnitNew(path, default) ==
    LET r == StoredNew(fs, path, default)
    IN  /\ data' = IF r.ok THEN (path :> r.stored) @@ data ELSE data
        /\ fs' = r.fs
        /\ ret' = Ret("Stored::new", path, default, path \in DOMAIN data,
                      IF r.ok THEN "Ok" ELSE "Err",
                      IF WithExtension(path) \in DOMAIN fs.files
                      THEN <<fs.files[WithExtension(path)]>> ELSE <<>>)
        /\ UNCHANGED <<deleted, tests>>

\* Stored::save
UnitSave(path) ==
    /\ path \in DOMAIN data
    /\ LET r == StoredSave(fs, data[path])
       IN  /\ fs' = r.fs
           /\ ret' = Ret("Stored::save", path, NoValue, TRUE,
                         IF r.ok THEN "Ok" ELSE "Err", <<>>)
    /\ UNCHANGED <<data, deleted, tests>>

\* Stored::store
UnitStore(path, value) ==
    /\ path \in DOMAIN data
    /\ LET r == StoredStore(fs, data[path], value)
       IN  /\ data' = [data EXCEPT ![path] = r.stored]
           /\ fs' = r.fs
           /\ ret' = Ret("Stored::store", path, value, TRUE,
                         IF r.ok THEN "Ok" ELSE "Err", <<>>)
    /\ UNCHANGED <<deleted, tests>>

\* Stored::delete
UnitDelete(path) ==
    /\ path \in DOMAIN data
    /\ LET r == StoredDelete(fs, data[path])
       IN  /\ fs' = r.fs
           /\ ret' = Ret("Stored::delete", path, NoValue, TRUE,
                         IF r.ok THEN "Ok" ELSE "Err", <<>>)
    /\ UNCHANGED <<data, deleted, tests>>

\* Stored::value
UnitValue(path) ==
    /\ path \in DOMAIN data
    /\ ret' = Ret("Stored::value", path, NoValue, TRUE, "Ok", <<StoredValue(data[path])>>)
    /\ UNCHANGED <<data, fs, deleted, tests>>

NextStored ==
    \/ \E path \in Names, default \in Values : UnitNew(path, default)
    \/ \E path \in Names : UnitSave(path)
    \/ \E path \in Names, value \in Values : UnitStore(path, value)
    \/ \E path \in Names : UnitDelete(path)
    \/ \E path \in Names : UnitValue(path)

SpecStored == InitStored /\ [][NextStored]_vars

----------------------------------------------------------------------------
(* The tests of store.rs run as two threads of one process: each makes a Store of   *)
(* its own on the directory "test" and calls it step by step; a whole call of one   *)
(* thread is one step, and the calls of the two threads interleave.                 *)

Hello == [stem |-> "hello", ext |-> "json"]
Goodbye == [stem |-> "goodbye", ext |-> "json"]
World == "world"

Call(op, name, value) == [op |-> op, name |-> name, value |-> value]

\* The statements of each test, in order: "get" is the assert_eq! on store.get, and
\* "assert" is the assert_eq! of test_all on what its "all" returned.
TestProgram ==
    [test_store |->
        << Call("new", NoName, NoValue),
           Call("save", Hello, World),
           Call("get", Hello, World),
           Call("delete", Hello, NoValue) >>,
     test_all |->
        << Call("new", NoName, NoValue),
           Call("save", Hello, World),
           Call("save", Goodbye, World),
           Call("all", NoName, NoValue),
           Call("assert", NoName, NoValue),
           Call("delete", Hello, NoValue),
           Call("delete", Goodbye, NoValue) >>]

\* What assert_eq!(stored, compare) of test_all compares all() with.
TestAllCompare == <<World, World>>

TestNames == {"test_store", "test_all"}

\* A test after a statement: `?` returns an Err from the test, a panic ends it, and
\* the return after the last statement passes it; stored is the local of test_all.
AfterCall(t, out, d, stored) ==
    [pc |-> tests[t].pc + 1,
     data |-> d,
     stored |-> stored,
     out |-> IF out = "Err" THEN "failed"
             ELSE IF out = "Panic" THEN "panicked"
             ELSE IF tests[t].pc = Len(TestProgram[t]) THEN "passed"
             ELSE "running"]

\* Both tests about to start.
TestsStart ==
    [t \in TestNames |-> [pc |-> 1, data |-> EmptyMap, stored |-> <<>>, out |-> "running"]]

InitTests ==
    /\ \E dir \in BOOLEAN : fs = [dir |-> dir, files |-> EmptyFiles]
    /\ tests = TestsStart
    /\ data = EmptyMap
    /\ ret = Ret("none", NoName, NoValue, FALSE, "Ok", <<>>)
    /\ deleted = {}

\* The next statement of test t; ret keeps the call and what it returned to the test.
TestCall(t) ==
    LET c == TestProgram[t][tests[t].pc]
        d == tests[t].data
        stored == tests[t].stored
        had == Join(c.name) \in DOMAIN d
    IN  /\ tests[t].out = "running"
        /\ \/ /\ c.op = "new"
              /\ LET r == StoreNew(fs)
                 IN  /\ fs' = r.fs
                     /\ tests' = [tests EXCEPT ![t] = AfterCall(t, r.out, r.data, stored)]
                     /\ ret' = Ret(c.op, c.name, c.value, had, r.out, <<>>)
           \/ /\ c.op = "save"
              /\ LET r == StoreSave(d, fs, c.name, c.value)
                 IN  /\ fs' = r.fs
                     /\ tests' = [tests EXCEPT ![t] = AfterCall(t, r.out, r.data, stored)]
                     /\ ret' = Ret(c.op, c.name, c.value, had, r.out, <<>>)
           \/ /\ c.op = "get"
              /\ LET val == StoreGet(d, c.name)
                     out == IF val = <<c.value>> THEN "Ok" ELSE "Panic"
                 IN  /\ tests' = [tests EXCEPT ![t] = AfterCall(t, out, d, stored)]
                     /\ ret' = Ret(c.op, c.name, c.value, had, "Ok", val)
              /\ UNCHANGED fs
           \/ /\ c.op = "all"
              /\ \E order \in ReadDirOrders(fs) :
                    LET r == StoreAll(d, fs, order)
                    IN  /\ tests' = [tests EXCEPT ![t] = AfterCall(t, r.out, d, r.val)]
                        /\ ret' = Ret(c.op, c.name, c.value, had, r.out, r.val)
              /\ UNCHANGED fs
           \/ /\ c.op = "assert"
              /\ LET out == IF stored = TestAllCompare THEN "Ok" ELSE "Panic"
                 IN  /\ tests' = [tests EXCEPT ![t] = AfterCall(t, out, d, stored)]
                     /\ ret' = Ret(c.op, c.name, c.value, had, out, stored)
              /\ UNCHANGED fs
           \/ /\ c.op = "delete"
              /\ LET r == StoreDelete(d, fs, c.name)
                 IN  /\ fs' = r.fs
                     /\ tests' = [tests EXCEPT ![t] = AfterCall(t, r.out, r.data, stored)]
                     /\ ret' = Ret(c.op, c.name, c.value, had, r.out, <<>>)
        /\ UNCHANGED <<data, deleted>>

TestStore == TestCall("test_store")
TestAll == TestCall("test_all")

\* The tests are run again once both have ended: the directory is as they left it.
RunAgain ==
    /\ \A t \in TestNames : tests[t].out # "running"
    /\ tests' = TestsStart
    /\ ret' = Ret("none", NoName, NoValue, FALSE, "Ok", <<>>)
    /\ UNCHANGED <<fs, data, deleted>>

NextTests == TestStore \/ TestAll \/ RunAgain

SpecTests == InitTests /\ [][NextTests]_vars

----------------------------------------------------------------------------
(* Helpers of the properties *)

\* The entry of the map for a name, and whether there is one.
Key(n) == Join(n)
Has(d, n) == Key(n) \in DOMAIN d

\* What lies at a path: <<>> when there is no file, else <<content>>.
FileOf(f, p) == IF p \in DOMAIN f.files THEN <<f.files[p]>> ELSE <<>>

\* A sequence of values, and the values of the map, as multisets.
BagOfSeq(s) ==
    [v \in {s[i] : i \in 1..Len(s)} |-> Cardinality({i \in 1..Len(s) : s[i] = v})]
BagOfData(d) ==
    [v \in {d[k].value : k \in DOMAIN d} |-> Cardinality({k \in DOMAIN d : d[k].value = v})]

\* Every file of the directory is the backing file of an entry of the map.
OnlyOwnFiles == \A p \in DOMAIN fs.files : \E k \in DOMAIN data : data[k].path = p

----------------------------------------------------------------------------
(* C1 *)

----------------------------------------------------------------------------
(* C2 *)

\* C2: enumeration completeness. After saves of distinct names into a Store, with no
\* delete since the Store was made and no file in the directory but the entries' own,
\* all() returns normally and returns exactly the multiset of the saved values.
C2_EnumerationComplete ==
    (ret.op = "all" /\ deleted = {} /\ data # EmptyMap /\ OnlyOwnFiles)
        => /\ ret.out = "Ok"
           /\ BagOfSeq(ret.val) = BagOfData(data)

----------------------------------------------------------------------------
(* C3 *)

\* C3: delete-then-empty. When delete(name) has removed the last entry of the Store, and
\* no file is left in the directory, it has returned Ok and the directory is gone; a
\* Store::new that follows succeeds with an empty map.
C3_DeleteThenEmpty ==
    /\ (ret.op = "delete" /\ ret.had /\ data = EmptyMap /\ DOMAIN fs.files = {})
          => (ret.out = "Ok" /\ ~fs.dir)
    /\ ret.op = "new" => (ret.out = "Ok" /\ data = EmptyMap /\ fs.dir)

----------------------------------------------------------------------------
(* C4 *)

\* What a step that is a save of a name with an entry does.
C4_RepeatSaveStep ==
    /\ (ret'.op = "save" /\ ret'.had)
          => /\ ret'.out # "Panic"
             /\ data' = data
             /\ StoreGet(data', ret'.name) = StoreGet(data, ret'.name)
             /\ ret'.out = "Ok"
                   => FileOf(fs', data[Key(ret'.name)].path)
                        = <<Serialize(data[Key(ret'.name)].value)>>
             /\ ret'.out = "Err" => fs' = fs
    /\ (/\ ret.op = "save" /\ ~ret.had /\ ret.out = "Ok"
        /\ ret'.op = "save" /\ ret'.name = ret.name)
          => /\ ret'.out = "Ok"
             /\ StoreGet(data', ret.name) = <<ret.value>>
             /\ FileOf(fs', WithExtension(Key(ret.name))) = <<Serialize(ret.value)>>

\* C4: a repeated save keeps the cached value. save(name, value) of a name that has an
\* entry never panics, leaves the map as it is (the supplied value is dropped) and, when
\* it returns Ok, has written the entry's own value to its file; after save(k, v1) of a
\* new name k and then save(k, v2), get(k) and the file both hold v1.
C4_RepeatSaveKeepsValue == [][C4_RepeatSaveStep]_vars

\* A save of a name that has an entry has returned Ok, with a value other than the entry's.
C4_Witness ==
    /\ ret.op = "save" /\ ret.had /\ ret.out = "Ok"
    /\ Has(data, ret.name)
    /\ data[Key(ret.name)].value # ret.value
    /\ FileOf(fs, data[Key(ret.name)].path) = <<Serialize(data[Key(ret.name)].value)>>

----------------------------------------------------------------------------
(* C5 *)

\* C5: extension normalization. Two names that differ in the extension only are one
\* entry: no two entries of the map share a backing file, and after save(N, V) of a
\* new name has returned Ok, get returns Some(V) for every name with N's backing file.
C5_ExtensionNormalization ==
    /\ \A k1, k2 \in DOMAIN data : data[k1].path = data[k2].path => k1 = k2
    /\ (ret.op = "save" /\ ~ret.had /\ ret.out = "Ok")
          => \A n \in Names :
                WithExtension(Key(n)) = WithExtension(Key(ret.name))
                    => StoreGet(data, n) = <<ret.value>>

----------------------------------------------------------------------------
(* C6 *)

\* What a step that is a get does.
C6_GetStep ==
    /\ ret'.op = "get"
          => /\ ret'.out = "Ok"
             /\ data' = data /\ fs' = fs
             /\ ret'.val = IF Key(ret'.name) \in DOMAIN data
                           THEN <<data[Key(ret'.name)].value>> ELSE <<>>
    /\ (ret.op = "new" /\ ret'.op = "get") => ret'.val = <<>>

\* C6: get(name) never fails and changes neither the map nor the disk; it returns the
\* entry's value when the map has an entry for name and None otherwise; right after
\* Store::new it returns None for every name, whatever files the directory holds.
C6_GetIsPure == [][C6_GetStep]_vars

\* get has returned None for a name whose backing file is on the disk.
C6_Witness ==
    /\ ret.op = "get" /\ ret.val = <<>>
    /\ WithExtension(Key(ret.name)) \in DOMAIN fs.files
    /\ Deserialize(fs.files[WithExtension(Key(ret.name))]).ok

----------------------------------------------------------------------------
(* C7 *)

C7_LifecycleStep ==
    /\ (ret'.op = "save" /\ ret'.out = "Ok")
          => /\ Has(data', ret'.name)
             /\ data'[Key(ret'.name)].value =
                   IF Has(data, ret'.name) THEN data[Key(ret'.name)].value ELSE ret'.value
    /\ (ret'.op = "save" /\ ret'.out # "Ok")
          => (Has(data', ret'.name) <=> Has(data, ret'.name))
    /\ (ret'.op = "delete" /\ Has(data, ret'.name))
          => (~Has(data', ret'.name) /\ ret'.name \in deleted')
    /\ ret'.op \in {"save", "delete"}
          => \A m \in Names \ {ret'.name} : Has(data', m) <=> Has(data, m)
    /\ ret'.op \in {"get", "all"} => data' = data

----------------------------------------------------------------------------
(* C8 *)

\* C8: delete(name) of a name that has no entry returns an Err (NotFound) to its caller.
C8_DeleteMissingReturnsErr ==
    (ret.op = "delete" /\ ~ret.had) => ret.out = "Err"

----------------------------------------------------------------------------
(* C9 *)

\* C9: save never aborts the process: whatever fails in it is returned as an Err.
C9_SaveNeverAborts == ret.op = "save" => ret.out \in {"Ok", "Err"}

----------------------------------------------------------------------------
(* C10 *)

\* What a save or a delete does to the entries of the other names.
C10_IndependenceStep ==
    ret'.op \in {"save", "delete"}
        => \A m \in DOMAIN data \ {Key(ret'.name)} :
              /\ m \in DOMAIN data'
              /\ data'[m] = data[m]
              /\ FileOf(fs', data[m].path) = FileOf(fs, data[m].path)

\* C10: independence of names. A save(N, ..) or delete(N), however it ends, leaves the
\* value and the backing file of every other entry M # N of the map as they were.
C10_Independence == [][C10_IndependenceStep]_vars

----------------------------------------------------------------------------
(* C11 *)

\* C11: the disk reflects the last save. In every reachable state, the backing file of
\* every entry of the map exists and holds the serialization of the entry's value, which
\* is what the entry's last successful save wrote.
C11_DiskReflectsLastSave ==
    \A k \in DOMAIN data : FileOf(fs, data[k].path) = <<Serialize(data[k].value)>>

----------------------------------------------------------------------------
(* C12 *)

\* The *.json files of the directory that are the backing file of no entry of the map.
StaleFiles ==
    {p \in DOMAIN fs.files :
        Extension(p) = "json" /\ \A k \in DOMAIN data : data[k].path # p}

\* C12: a stale *.json file is invisible to enumeration. When the directory holds a
\* *.json file that was not saved through this Store (and every entry of the map is
\* keyed by its file's path, and every file has an extension), all() returns normally,
\* with the values of the entries of the map and nothing else.
C12_StaleFileInvisible ==
    (/\ ret.op = "all" /\ StaleFiles # {}
     /\ \A k \in DOMAIN data : data[k].path = k
     /\ \A p \in DOMAIN fs.files : Extension(p) # "")
        => /\ ret.out = "Ok"
           /\ BagOfSeq(ret.val) = BagOfData(data)

----------------------------------------------------------------------------
(* C15 *)

\* The *.json files of the directory.
JsonFiles(f) == {p \in DOMAIN f.files : Extension(p) = "json"}

\* C15: all() goes by the files. When all() returns, it returns one value per *.json
\* file of the directory, in some order of the files: the value of the entry keyed by
\* that file's path. When a *.json file has no entry keyed by its path, all() fails
\* (it panics) and returns nothing.
C15_AllByFiles ==
    ret.op = "all"
        => /\ ret.out \in {"Ok", "Panic"}
           /\ ret.out = "Ok"
                 => /\ JsonFiles(fs) \subseteq DOMAIN data
                    /\ \E o \in Orders(JsonFiles(fs)) :
                          ret.val = [i \in 1..Len(o) |-> data[o[i]].value]
           /\ (\E p \in JsonFiles(fs) : p \notin DOMAIN data)
                 => (ret.out = "Panic" /\ ret.val = <<>>)

\* all() has returned the values of two *.json files, with a file of another kind in
\* the directory and an entry in the map that no file is keyed by.
C15_Witness ==
    /\ ret.op = "all" /\ ret.out = "Ok" /\ Len(ret.val) = 2
    /\ \E p \in DOMAIN fs.files : Extension(p) = "txt"
    /\ \E k \in DOMAIN data : k \notin DOMAIN fs.files

----------------------------------------------------------------------------
(* C16 *)

\* C16: delete takes the entry out of the map first. After delete(name) of a name that
\* had an entry, whether it returned Ok or an Err, get(name) returns None.
C16_DeleteRemovesEntryFirst ==
    (ret.op = "delete" /\ ret.had) => StoreGet(data, ret.name) = <<>>

\* delete(name) of a name that had an entry has returned an Err.
C16_Witness ==
    /\ ret.op = "delete" /\ ret.had /\ ret.out = "Err"
    /\ StoreGet(data, ret.name) = <<>>

----------------------------------------------------------------------------
(* C13 *)

\* C13: Stored::new yields the default. Stored::new(path, default) returns Ok exactly
\* when the file can be created (the directory exists), never an error for what the
\* file held; the unit it yields has path.json as its path and default as its value,
\* whatever the file held before, and the file is left existing and empty.
C13_NewYieldsDefault ==
    ret.op = "Stored::new"
        => /\ ret.out = "Ok" <=> fs.dir
           /\ ret.out = "Ok"
                 => /\ Has(data, ret.name)
                    /\ data[Key(ret.name)].path = WithExtension(ret.name)
                    /\ StoredValue(data[Key(ret.name)]) = ret.value
                    /\ FileOf(fs, WithExtension(ret.name)) = << <<>> >>

\* Stored::new has returned a unit on a file that held the serialization of a value
\* other than the default.
C13_Witness ==
    /\ ret.op = "Stored::new" /\ ret.out = "Ok"
    /\ \E v \in Values \ {ret.value} : ret.val = <<Serialize(v)>>
    /\ StoredValue(data[Key(ret.name)]) = ret.value

----------------------------------------------------------------------------
(* C14 *)

\* What a step that is a Stored::delete does.
C14_DeleteStep ==
    /\ ret'.op = "Stored::delete"
          => LET st == data[Key(ret'.name)]
             IN  /\ data' = data
                 /\ StoredValue(data'[Key(ret'.name)]) = StoredValue(st)
                 /\ IF st.path \in DOMAIN fs.files
                    THEN /\ ret'.out = "Ok"
                         /\ DOMAIN fs'.files = DOMAIN fs.files \ {st.path}
                         /\ \A p \in DOMAIN fs'.files : fs'.files[p] = fs.files[p]
                         /\ fs'.dir = fs.dir
                    ELSE /\ ret'.out = "Err"
                         /\ fs' = fs
    /\ (ret.op = "Stored::delete" /\ ret'.op = "Stored::delete" /\ ret'.name = ret.name)
          => ret'.out = "Err"

\* C14: Stored::delete removes the file and keeps the value. A delete() whose file
\* exists returns Ok and removes that file and nothing else; one whose file is missing
\* returns an Err and changes nothing, so a delete() right after a delete() of the same
\* unit fails; either way the unit's value is what it was.
C14_DeleteKeepsValue == [][C14_DeleteStep]_vars

\* A delete() has failed on a missing file, in a directory that exists, and the unit
\* still holds a value.
C14_Witness ==
    /\ ret.op = "Stored::delete" /\ ret.out = "Err" /\ fs.dir
    /\ StoredValue(data[Key(ret.name)]) \in Values

----------------------------------------------------------------------------
(* C17 *)

\* C17: the two tests pass together. However the calls of test_store and test_all, each
\* on a Store of its own on the directory "test", interleave, no call panics or
\* returns an Err and no assertion fails: each test is running or has passed.
C17_TestsPassTogether ==
    \A t \in TestNames : tests[t].out \in {"running", "passed"}

====
